---------------------------- MODULE Spec2Model ----------------------------
(***************************************************************************)
(* The css selector builder of src/src/06-objects-tasks.js:                *)
(* MySuperBaseElementSelector (constructor, six append methods, combine,   *)
(* checkOrder, stringify) and the cssSelectorBuilder facade.               *)
(*                                                                         *)
(* An instance is a record with the fields the code uses (arr, order,      *)
(* hasElement, hasId, hasPseudoElement).  A method is an operator from the *)
(* receiver (and the arguments) to the completion of the call: the         *)
(* receiver as the call leaves it, and the message of the Error it threw   *)
(* (NoError when it returned).  The heap is the sequence of the instances  *)
(* constructed so far; an action is one call of the public interface.      *)
(***************************************************************************)
EXTENDS Integers, Sequences, FiniteSets, TLC

(***************************************************************************)
(* Bounds and input sets.                                                  *)
(***************************************************************************)
\* Number of calls of the public interface in one behaviour.
MaxCalls == 3

\* Number of calls in a behaviour that builds one selector out of class, attr
\* and pseudoClass fragments only.
MaxRepeatCalls == 6

\* Number of calls in a behaviour that combines selectors once through the
\* facade and then appends to the instance returned: two calls for the
\* arguments, the combination, and the appends.
MaxCombinedCalls == 5

\* Number of key: value entries of the object literal given to getJSON.
MaxProps == 2

\* The texts passed as value to the append methods.
Values == {"a", "b"}

\* The texts passed as combinator to combine.
Combinators == {"+", " "}

(***************************************************************************)
(* Errors.                                                                 *)
(***************************************************************************)
NoError == "no error"

\* The message of the Error thrown at lines 137, 148 and 180.
DuplicateMsg == "Element, id and pseudo-element should not occur more then one time inside the selector"

\* The message of the Error thrown at line 196.
OrderMsg == "Selector parts should be arranged in the following order: element, id, class, attribute, pseudo-class, pseudo-element"

(***************************************************************************)
(* MySuperBaseElementSelector.                                             *)
(***************************************************************************)
\* function MySuperBaseElementSelector() { this.arr = []; this.order = []; }
\* The three has* fields do not exist on a new instance; reading them gives
\* undefined, which the methods only test for truthiness: FALSE here.
MySuperBaseElementSelector ==
  [arr |-> <<>>, order |-> <<>>,
   hasElement |-> FALSE, hasId |-> FALSE, hasPseudoElement |-> FALSE]

\* Completion of a call: normal return (return this) and throw.
Return(this) == [this |-> this, thrown |-> NoError]
Throw(this, msg) == [this |-> this, thrown |-> msg]

\* Variant: join() with its default separator.
RECURSIVE joinComma(_)
joinComma(arr) ==
  IF arr = <<>> THEN ""
  ELSE IF Len(arr) = 1 THEN Head(arr)
  ELSE Head(arr) \o "," \o joinComma(Tail(arr))

\* Array.prototype.join('') on an array of strings.
RECURSIVE join(_)
join(arr) == IF arr = <<>> THEN "" ELSE Head(arr) \o join(Tail(arr))

\* Variant: ranks must strictly increase.
checkOrderStrict(this, number) ==
  LET last == IF this.order = <<>> THEN 0 ELSE this.order[Len(this.order)]
  IN  last >= number

\* Variant: comparison the wrong way round.
checkOrderReversed(this, number) ==
  LET last == IF this.order = <<>> THEN 0 ELSE this.order[Len(this.order)]
  IN  this.order # <<>> /\ last < number

\* Variant: throws unless the rank repeats the last one.
checkOrderUnequal(this, number) ==
  LET last == IF this.order = <<>> THEN 0 ELSE this.order[Len(this.order)]
  IN  last # number

\* checkOrder(number): TRUE when it throws.
\* this.order.slice(-1) is an array (always truthy) holding the last recorded
\* rank, or no element; compared with a number it is converted through its
\* string form: [r] to r, [] to 0.
checkOrder(this, number) ==
  LET last == IF this.order = <<>> THEN 0 ELSE this.order[Len(this.order)]
  IN  last > number

\* The statements every append method ends with:
\*   this.arr.push(fragment); this.checkOrder(number);
\*   this.order.push(number); return this;
\* The push on arr is done when checkOrder throws.
pushChecked(this, fragment, number) ==
  LET pushed == [this EXCEPT !.arr = Append(@, fragment)]
  IN  IF checkOrder(pushed, number)
      THEN Throw(pushed, OrderMsg)
      ELSE Return([pushed EXCEPT !.order = Append(@, number)])

\* Variant: the order check comes before the test of hasElement.
elementOrderFirst(this, value) ==
  IF checkOrder(this, 1)
  THEN Throw(this, OrderMsg)
  ELSE IF this.hasElement
  THEN Throw(this, DuplicateMsg)
  ELSE pushChecked([this EXCEPT !.hasElement = TRUE], value, 1)

element(this, value) ==
  IF this.hasElement
  THEN Throw(this, DuplicateMsg)
  ELSE pushChecked([this EXCEPT !.hasElement = TRUE], value, 1)

\* Variant: hasId is set once the order check has passed.
idFlagAfterCheck(this, value) ==
  IF this.hasId
  THEN Throw(this, DuplicateMsg)
  ELSE LET r == pushChecked(this, "#" \o value, 2)
       IN  IF r.thrown = NoError
           THEN Return([r.this EXCEPT !.hasId = TRUE])
           ELSE r

id(this, value) ==
  IF this.hasId
  THEN Throw(this, DuplicateMsg)
  ELSE pushChecked([this EXCEPT !.hasId = TRUE], "#" \o value, 2)

class(this, value) == pushChecked(this, "." \o value, 3)

attr(this, value) == pushChecked(this, "[" \o value \o "]", 4)

pseudoClass(this, value) == pushChecked(this, ":" \o value, 5)

\* Variant: the rank of pseudoClass is checked and recorded.
pseudoElementRank5(this, value) ==
  IF this.hasPseudoElement
  THEN Throw(this, DuplicateMsg)
  ELSE pushChecked([this EXCEPT !.hasPseudoElement = TRUE], "::" \o value, 5)

\* Variant: no test of hasPseudoElement.
pseudoElementUnchecked(this, value) ==
  pushChecked([this EXCEPT !.hasPseudoElement = TRUE], "::" \o value, 6)

pseudoElement(this, value) ==
  IF this.hasPseudoElement
  THEN Throw(this, DuplicateMsg)
  ELSE pushChecked([this EXCEPT !.hasPseudoElement = TRUE], "::" \o value, 6)

stringify(this) == join(this.arr)

\* Variant: the three texts are pushed on arr instead of replacing it.
combinePushing(this, selector1, combinator, selector2) ==
  Return([this EXCEPT !.arr = @ \o <<stringify(selector1),
                                     " " \o combinator \o " ",
                                     stringify(selector2)>>])

\* Variant: combine starts the instance afresh.
combineResetting(this, selector1, combinator, selector2) ==
  Return([MySuperBaseElementSelector
            EXCEPT !.arr = <<stringify(selector1),
                             " " \o combinator \o " ",
                             stringify(selector2)>>])

\* Variant: the singleton rule is applied to the two arguments together.
combineValidating(this, selector1, combinator, selector2) ==
  IF \/ selector1.hasElement /\ selector2.hasElement
     \/ selector1.hasId /\ selector2.hasId
     \/ selector1.hasPseudoElement /\ selector2.hasPseudoElement
  THEN Throw(this, DuplicateMsg)
  ELSE Return([this EXCEPT !.arr = <<stringify(selector1),
                                     " " \o combinator \o " ",
                                     stringify(selector2)>>])

combine(this, selector1, combinator, selector2) ==
  Return([this EXCEPT !.arr = <<stringify(selector1),
                                " " \o combinator \o " ",
                                stringify(selector2)>>])

(***************************************************************************)
(* getJSON and fromJSON.                                                   *)
(*                                                                         *)
(* A text is a sequence of UTF-16 code units.  A code unit is written as   *)
(* the character itself ("a", "\n") where a string of this module can hold *)
(* it, and by its name otherwise: "U+0008", "U+0060", "U+00E9", "U+D800".  *)
(*                                                                         *)
(* A value is undefined, null, a boolean, a number, a string, an array or  *)
(* an object: getJSON takes an object or an array and fromJSON an object   *)
(* and a string, as their comments say.  A number is a double.  An object  *)
(* is its prototype and its own enumerable properties, a sequence of key   *)
(* and value in the order Object.keys and JSON.stringify visit them: array *)
(* indices in ascending order first, then the other keys in order of       *)
(* creation.  Functions are not among the values, so that no object has a  *)
(* method of its own; symbols and BigInts are not among them either.       *)
(***************************************************************************)
Undefined == [t |-> "undefined"]

Null == [t |-> "null"]

Bool(b) == [t |-> "boolean", b |-> b]

Str(s) == [t |-> "string", s |-> s]

Arr(items) == [t |-> "array", items |-> items]

\* A prototype object such as Circle.prototype: its prototype is
\* Object.prototype, and it holds the methods of its type and nothing else:
\* no accessor, no read-only property and no method toJSON.
Proto(name) == [t |-> "prototype", name |-> name]

ObjectPrototype == Proto("Object.prototype")

\* An object with prototype proto and no own property.
NewObject(proto) == [t |-> "object", proto |-> proto, own |-> <<>>]

\* A finite number is its sign, its significant decimal digits d1 .. dk
\* (no leading and no trailing zero; none for zero) and the exponent n with
\* value 0.d1..dk * 10^n.
Finite(neg, digits, n) ==
  [t |-> "number", kind |-> "finite", neg |-> neg, digits |-> digits, n |-> n]

Zero(neg) == Finite(neg, <<>>, 0)

Infinity(neg) ==
  [t |-> "number", kind |-> "Infinity", neg |-> neg, digits |-> <<>>, n |-> 0]

NaN == [t |-> "number", kind |-> "NaN", neg |-> FALSE, digits |-> <<>>, n |-> 0]

IsObject(v) == v.t \in {"object", "array", "prototype"}

DigitChars == <<"0", "1", "2", "3", "4", "5", "6", "7", "8", "9">>

IsDigit(c) == \E d \in 1 .. 10 : DigitChars[d] = c

DigitOf(c) == (CHOOSE d \in 1 .. 10 : DigitChars[d] = c) - 1

\* The decimal digits of a natural number.
RECURSIVE NatToString(_)
NatToString(n) ==
  IF n < 10 THEN <<DigitChars[n + 1]>>
  ELSE NatToString(n \div 10) \o <<DigitChars[(n % 10) + 1]>>

RECURSIVE StringToNat(_, _)
StringToNat(chars, acc) ==
  IF chars = <<>> THEN acc
  ELSE StringToNat(Tail(chars), 10 * acc + DigitOf(Head(chars)))

\* Number of the elements x at the front and at the end of a sequence.
LeadingCount(s, x) ==
  CHOOSE z \in 0 .. Len(s) :
    /\ z = Len(s) \/ s[z + 1] # x
    /\ \A i \in 1 .. z : s[i] = x

TrailingCount(s, x) ==
  CHOOSE z \in 0 .. Len(s) :
    /\ z = Len(s) \/ s[Len(s) - z] # x
    /\ \A i \in 1 .. z : s[Len(s) - i + 1] = x

DropLeadingZeros(digits) ==
  SubSeq(digits, LeadingCount(digits, "0") + 1, Len(digits))

DropTrailingZeros(digits) ==
  SubSeq(digits, 1, Len(digits) - TrailingCount(digits, "0"))

Zeros(n) == [j \in 1 .. (IF n < 0 THEN 0 ELSE n) |-> "0"]

\* 0.a < 0.b, for digits a and b without trailing zero.
FractionLess(a, b) ==
  \/ \E j \in 1 .. Len(a) :
       /\ j <= Len(b)
       /\ DigitOf(a[j]) < DigitOf(b[j])
       /\ \A i \in 1 .. j - 1 : a[i] = b[i]
  \/ Len(a) < Len(b) /\ SubSeq(b, 1, Len(a)) = a

\* A decimal is its digits d1 .. dk and the exponent n: 0.d1..dk * 10^n.
DecimalLess(x, y) ==
  x.n < y.n \/ (x.n = y.n /\ FractionLess(x.digits, y.digits))

(***************************************************************************)
(* Natural numbers of any size, for the arithmetic of the doubles: the     *)
(* decimal digits as numbers, most significant first, none for 0.          *)
(***************************************************************************)
Trim(a) == SubSeq(a, LeadingCount(a, 0) + 1, Len(a))

\* The digits of chars as numbers, and with the leading zeros dropped.
Digits(chars) == SubSeq([j \in 1 .. Len(chars) |-> DigitOf(chars[j])],
                        1, Len(chars))

ToBig(chars) == Trim(Digits(chars))

\* The first place from j on where a and b of one length differ, or the
\* place after their last.
FirstDifference(a, b, j) ==
  CHOOSE k \in j .. Len(a) + 1 :
    /\ k = Len(a) + 1 \/ a[k] # b[k]
    /\ \A i \in j .. k - 1 : a[i] = b[i]

LessAt(a, b, k) == k <= Len(a) /\ a[k] < b[k]

BigLess(a, b) ==
  \/ Len(a) < Len(b)
  \/ Len(a) = Len(b) /\ LessAt(a, b, FirstDifference(a, b, 1))

IsOdd(a) == a # <<>> /\ a[Len(a)] % 2 = 1

\* 2 * a: a digit takes the carry of the digit below it, which is 5 or more.
Double(a) ==
  Trim([j \in 1 .. Len(a) + 1 |->
          ((IF j = 1 THEN 0 ELSE 2 * a[j - 1]) % 10)
            + (IF j <= Len(a) /\ a[j] >= 5 THEN 1 ELSE 0)])

\* a \div 2.
Halve(a) ==
  Trim([j \in 1 .. Len(a) |->
          (a[j] + (IF j > 1 /\ a[j - 1] % 2 = 1 THEN 10 ELSE 0)) \div 2])

\* 5 * a.
Times5(a) == Halve(Append(a, 0))

\* a with change added to the digit at place keep and the digits after it
\* replaced by fill.
Carried(a, keep, change, fill) ==
  Trim([j \in 1 .. Len(a) |->
          IF j < keep THEN a[j] ELSE IF j = keep THEN a[j] + change ELSE fill])

\* a + 1: the nines at the end become zeros.
BigSucc(a) ==
  IF TrailingCount(a, 9) = Len(a) THEN <<1>> \o [j \in 1 .. Len(a) |-> 0]
  ELSE Carried(a, Len(a) - TrailingCount(a, 9), 1, 0)

\* a - 1, a not 0: the zeros at the end become nines.
BigPred(a) == Carried(a, Len(a) - TrailingCount(a, 0), -1, 9)

\* b with zeros in front, as long as a.
Padded(b, a) ==
  SubSeq([j \in 1 .. Len(a) |->
            IF j <= Len(a) - Len(b) THEN 0 ELSE b[j - (Len(a) - Len(b))]],
         1, Len(a))

\* a - b, for a and b of one length and b at most a: a digit borrows when
\* the digits below it are less in a than in b.
Minus(a, b) ==
  Trim([j \in 1 .. Len(a) |->
          (a[j] - b[j] + 10
             - (IF LessAt(a, b, FirstDifference(a, b, j + 1)) THEN 1 ELSE 0))
            % 10])

\* a - b, for b at most a.
BigSub(a, b) == Minus(a, Padded(b, a))

\* The first place from j on where the digits of a and b of one length do
\* not add up to 9, or the place after their last.
FirstNotNine(a, b, j) ==
  CHOOSE k \in j .. Len(a) + 1 :
    /\ k = Len(a) + 1 \/ a[k] + b[k] # 9
    /\ \A i \in j .. k - 1 : a[i] + b[i] = 9

\* a + b, for a and b of one length: a digit takes a carry when the digits
\* below it add up to 10 or more, which the first of them that do not add
\* up to 9 decide.
Plus(a, b) ==
  Trim([j \in 1 .. Len(a) |->
          (a[j] + b[j]
             + (IF /\ FirstNotNine(a, b, j + 1) <= Len(a)
                   /\ a[FirstNotNine(a, b, j + 1)]
                        + b[FirstNotNine(a, b, j + 1)] > 9
                THEN 1 ELSE 0))
            % 10])

\* a + b: both are padded to one length that has room for the carry.
BigAdd(a, b) == Plus(Padded(a, <<0>> \o a \o b), Padded(b, <<0>> \o a \o b))

(***************************************************************************)
(* An integer of any size: its sign and its magnitude.                     *)
(***************************************************************************)
Signed(neg, mag) == [neg |-> neg /\ mag # <<>>, mag |-> mag]

SignedOf(i) == Signed(i < 0, ToBig(NatToString(IF i < 0 THEN 0 - i ELSE i)))

\* The value of x, for x within the integers of this module.
IntOf(x) ==
  StringToNat(SubSeq([j \in 1 .. Len(x.mag) |-> DigitChars[x.mag[j] + 1]],
                     1, Len(x.mag)), 0)
    * (IF x.neg THEN -1 ELSE 1)

SignedSum(x, y) ==
  IF x.neg = y.neg THEN Signed(x.neg, BigAdd(x.mag, y.mag))
  ELSE IF BigLess(x.mag, y.mag) THEN Signed(y.neg, BigSub(y.mag, x.mag))
  ELSE Signed(x.neg, BigSub(x.mag, y.mag))

\* 2^t * a and 5^t * a.
RECURSIVE TimesTwoTo(_, _), TimesFiveTo(_, _)
TimesTwoTo(a, t) ==
  IF t = 0 \/ a = <<>> THEN a
  ELSE IF t = 1 THEN Double(a)
  ELSE TimesTwoTo(TimesTwoTo(a, t \div 2), t - t \div 2)

TimesFiveTo(a, t) ==
  IF t = 0 \/ a = <<>> THEN a
  ELSE IF t = 1 THEN Times5(a)
  ELSE TimesFiveTo(TimesFiveTo(a, t \div 2), t - t \div 2)

TwoTo52 == <<4, 5, 0, 3, 5, 9, 9, 6, 2, 7, 3, 7, 0, 4, 9, 6>>

TwoTo53 == <<9, 0, 0, 7, 1, 9, 9, 2, 5, 4, 7, 4, 0, 9, 9, 2>>

(***************************************************************************)
(* A double is m * 2^q with m < 2^53 and q >= -1074, and m >= 2^52 unless  *)
(* q = -1074.                                                              *)
(***************************************************************************)
\* One step towards b <= a < 2 * b, where a / b is the value / 2^(q + 52);
\* done when there is no step left to take.
ScaleStep(s) ==
  IF BigLess(s.a, s.b)
  THEN IF s.q > -1074 THEN [s EXCEPT !.a = Double(s.a), !.q = @ - 1]
       ELSE [s EXCEPT !.done = TRUE]
  ELSE IF ~BigLess(s.a, Double(s.b))
  THEN [s EXCEPT !.b = Double(s.b), !.q = @ + 1]
  ELSE [s EXCEPT !.done = TRUE]

\* One bit of the quotient rem / (den / 2^(52 - i)), most significant
\* first: it is 1 when den fits into rem.
DivideBit(s, fits) ==
  [rem |-> IF fits THEN BigSub(s.rem, s.den) ELSE s.rem,
   den |-> IF s.i < 52 THEN Halve(s.den) ELSE s.den,
   m |-> IF fits THEN BigSucc(Double(s.m)) ELSE Double(s.m),
   i |-> s.i + 1,
   q |-> s.q]

DivideStep(s) == DivideBit(s, ~BigLess(s.rem, s.den))

RECURSIVE Scale(_, _), Divide(_, _)
Scale(s, steps) ==
  IF steps = 0 \/ s.done \/ s.a = <<>> THEN s
  ELSE IF steps = 1 THEN ScaleStep(s)
  ELSE Scale(Scale(s, steps \div 2), steps - steps \div 2)

Divide(s, steps) ==
  IF steps = 0 \/ s.i > 52 THEN s
  ELSE IF steps = 1 THEN DivideStep(s)
  ELSE Divide(Divide(s, steps \div 2), steps - steps \div 2)

\* The decimal x as a / b with b <= a < 2 * b, and the exponent q.
Scaled(x) ==
  Scale([a |-> ToBig(x.digits \o Zeros(x.n - Len(x.digits))),
         b |-> TwoTo52 \o Digits(Zeros(Len(x.digits) - x.n)),
         q |-> 0,
         done |-> FALSE],
        4 * (IF x.n < 0 THEN 0 - x.n ELSE x.n) + 64)

\* The 53 bits m of the quotient of s, and what is left of it.
Quotient(s) == Divide([rem |-> s.a, den |-> s.b, m |-> <<>>, i |-> 0,
                       q |-> s.q], 53)

\* The quotient r is nearer to m + 1 than to m, or as near and m is odd.
RoundsUp(r) ==
  \/ BigLess(r.den, Double(r.rem))
  \/ Double(r.rem) = r.den /\ IsOdd(r.m)

\* m * 2^q, with m of 53 bits when the rounding carried into a 54th.
Normalized(m, q) ==
  IF m = TwoTo53 THEN [m |-> TwoTo52, q |-> q + 1] ELSE [m |-> m, q |-> q]

Nearest(r) == Normalized(IF RoundsUp(r) THEN BigSucc(r.m) ELSE r.m, r.q)

\* The double nearest to the decimal x, ties to the even m: [m, q]; q is
\* 972 or more when the decimal is beyond the doubles.
ToDouble(x) == Nearest(Quotient(Scaled(x)))

\* The decimal of the digits of an integer times 10^exp.
Placed(digits, exp) ==
  [digits |-> SubSeq([j \in 1 .. Len(digits) |-> DigitChars[digits[j] + 1]],
                     1, Len(digits) - TrailingCount(digits, 0)),
   n |-> Len(digits) + exp]

\* The decimal that m * 2^q is: m * 2^q, or m * 5^(-q) / 10^(-q).
Expansion(m, q) ==
  IF q >= 0 THEN Placed(TimesTwoTo(m, q), 0)
  ELSE Placed(TimesFiveTo(m, 0 - q), q)

\* The decimals halfway to the doubles next to m * 2^q.
LowerBoundary(m, q) ==
  IF m = TwoTo52 /\ q > -1074 THEN Expansion(BigPred(Double(Double(m))), q - 2)
  ELSE Expansion(BigPred(Double(m)), q - 1)

UpperBoundary(m, q) == Expansion(BigSucc(Double(m)), q - 1)

\* The decimal c is rounded to the double between low and high.
RoundsTo(c, low, high, even) ==
  \/ DecimalLess(low, c) /\ DecimalLess(c, high)
  \/ even /\ (c = low \/ c = high)

\* The decimal x cut to k digits, and the next decimal of k digits.
Truncated(x, k) ==
  [digits |-> DropTrailingZeros(SubSeq(x.digits, 1, k)), n |-> x.n]

Raised(x, keep) ==
  IF keep = 0 THEN [digits |-> <<"1">>, n |-> x.n + 1]
  ELSE [digits |-> SubSeq(x.digits, 1, keep - 1)
                     \o <<DigitChars[DigitOf(x.digits[keep]) + 2]>>,
        n |-> x.n]

Successor(x, k) == Raised(x, k - TrailingCount(SubSeq(x.digits, 1, k), "9"))

\* A decimal of k digits is rounded to the double x.
Rounds(x, low, high, even, k) ==
  \/ RoundsTo(Truncated(x, k), low, high, even)
  \/ RoundsTo(Successor(x, k), low, high, even)

\* The fewest digits a decimal rounded to the double x has.
FewestDigits(x, low, high, even) ==
  CHOOSE k \in 1 .. Len(x.digits) :
    /\ k = Len(x.digits) \/ Rounds(x, low, high, even, k)
    /\ \A h \in 1 .. k - 1 : ~Rounds(x, low, high, even, h)

\* x is nearer to the decimal it is cut to at k digits than to the next
\* one, or as near and the digit k is even.
DownNearer(x, k) ==
  \/ FractionLess(SubSeq(x.digits, k + 1, Len(x.digits)), <<"5">>)
  \/ /\ SubSeq(x.digits, k + 1, Len(x.digits)) = <<"5">>
     /\ DigitOf(x.digits[k]) % 2 = 0

\* Of the decimals of k digits rounded to the double x, the one nearest
\* to x.
NearestOf(x, low, high, even, k) ==
  IF Len(x.digits) <= k THEN x
  ELSE IF ~RoundsTo(Successor(x, k), low, high, even) THEN Truncated(x, k)
  ELSE IF ~RoundsTo(Truncated(x, k), low, high, even) THEN Successor(x, k)
  ELSE IF DownNearer(x, k) THEN Truncated(x, k)
  ELSE Successor(x, k)

\* Number::toString, the digits: of the decimals of the fewest digits that
\* are rounded to the double x, the one nearest to x, and of two equally
\* near the one with the even last digit.
Shortest(x, low, high, even) ==
  NearestOf(x, low, high, even, FewestDigits(x, low, high, even))

\* The number that is the decimal s.
FiniteOf(neg, s) == Finite(neg, s.digits, s.n)

\* The number that is the double m * 2^q.
NumberOf(neg, d) ==
  IF d.q >= 972 THEN Infinity(neg)
  ELSE IF d.m = <<>> THEN Zero(neg)
  ELSE FiniteOf(neg, Shortest(Expansion(d.m, d.q), LowerBoundary(d.m, d.q),
                              UpperBoundary(d.m, d.q), ~IsOdd(d.m)))

\* The number nearest to the decimal x, which is between 1e-324 and
\* 1e310.  Decimals of at most 15 digits between 1e-300 and 1e300 are
\* rounded to doubles that differ, so such a decimal is itself the fewest
\* digits that are rounded to its double.
NumberNearest(neg, x) ==
  IF Len(x.digits) <= 15 /\ -300 < x.n /\ x.n < 300 THEN FiniteOf(neg, x)
  ELSE NumberOf(neg, ToDouble(x))

\* The number nearest to 0.d1..dk * 10^n, for digits lead without leading
\* zero and an integer n of any size.  What is at least 1e309 is beyond
\* the largest double, and what is below 1e-324 is less than half the
\* least.
Significant(neg, lead, n) ==
  IF DropTrailingZeros(lead) = <<>> THEN Zero(neg)
  ELSE IF n.neg /\ ~BigLess(n.mag, <<3, 2, 4>>) THEN Zero(neg)
  ELSE IF ~n.neg /\ ~BigLess(n.mag, <<3, 1, 0>>) THEN Infinity(neg)
  ELSE NumberNearest(neg, [digits |-> DropTrailingZeros(lead),
                           n |-> IntOf(n)])

\* The number nearest to digits * 10^exp, for an exponent exp of any size:
\* it is 0.d1..dk * 10^(k + exp) for the k digits from the first that is
\* not zero.
Scientific(neg, lead, exp) ==
  Significant(neg, lead, SignedSum(SignedOf(Len(lead)), exp))

\* The double nearest to digits * 10^exp, as the number whose digits are
\* the ones Number::toString writes.
Decimal(neg, digits, exp) ==
  Scientific(neg, DropLeadingZeros(digits), SignedOf(exp))

\* The number of an integer i.
Num(i) == Decimal(i < 0, NatToString(IF i < 0 THEN 0 - i ELSE i), 0)

\* Number::toString.
NumberToString(v) ==
  LET d == v.digits
      k == Len(d)
      n == v.n
  IN  CASE v.kind = "NaN" -> <<"N", "a", "N">>
        [] v.kind = "Infinity" ->
             (IF v.neg THEN <<"-">> ELSE <<>>)
               \o <<"I", "n", "f", "i", "n", "i", "t", "y">>
        [] v.kind = "finite" ->
             IF d = <<>> THEN <<"0">>
             ELSE (IF v.neg THEN <<"-">> ELSE <<>>) \o
                  (IF k <= n /\ n <= 21 THEN d \o Zeros(n - k)
                   ELSE IF 0 < n /\ n <= 21
                   THEN SubSeq(d, 1, n) \o <<".">> \o SubSeq(d, n + 1, k)
                   ELSE IF -6 < n /\ n <= 0 THEN <<"0", ".">> \o Zeros(0 - n) \o d
                   ELSE (IF k = 1 THEN d ELSE <<d[1], ".">> \o Tail(d))
                          \o <<"e", IF n - 1 < 0 THEN "-" ELSE "+">>
                          \o NatToString(IF n - 1 < 0 THEN 1 - n ELSE n - 1))

\* The code units U+0000 .. U+007F, in order.
Ascii ==
  <<
    "U+0000", "U+0001", "U+0002", "U+0003", "U+0004", "U+0005", "U+0006", "U+0007",
    "U+0008", "\t", "\n", "U+000B", "\f", "\r", "U+000E", "U+000F",
    "U+0010", "U+0011", "U+0012", "U+0013", "U+0014", "U+0015", "U+0016", "U+0017",
    "U+0018", "U+0019", "U+001A", "U+001B", "U+001C", "U+001D", "U+001E", "U+001F",
    " ", "!", "\"", "#", "$", "%", "&", "'",
    "(", ")", "*", "+", ",", "-", ".", "/",
    "0", "1", "2", "3", "4", "5", "6", "7",
    "8", "9", ":", ";", "<", "=", ">", "?",
    "@", "A", "B", "C", "D", "E", "F", "G",
    "H", "I", "J", "K", "L", "M", "N", "O",
    "P", "Q", "R", "S", "T", "U", "V", "W",
    "X", "Y", "Z", "[", "\\", "]", "^", "_",
    "U+0060", "a", "b", "c", "d", "e", "f", "g",
    "h", "i", "j", "k", "l", "m", "n", "o",
    "p", "q", "r", "s", "t", "u", "v", "w",
    "x", "y", "z", "{", "|", "}", "~", "U+007F"
  >>

HexChars ==
  <<"0", "1", "2", "3", "4", "5", "6", "7", "8", "9", "a", "b", "c", "d", "e",
    "f">>

HexCapitals ==
  <<"0", "1", "2", "3", "4", "5", "6", "7", "8", "9", "A", "B", "C", "D", "E",
    "F">>

IsHexDigit(c) == \E d \in 1 .. 16 : c \in {HexChars[d], HexCapitals[d]}

HexValue(c) == (CHOOSE d \in 1 .. 16 : c \in {HexChars[d], HexCapitals[d]}) - 1

\* The code unit of a code.
CharOf(code) ==
  IF code < 128 THEN Ascii[code + 1]
  ELSE "U+" \o HexCapitals[(code \div 4096) + 1]
            \o HexCapitals[((code \div 256) % 16) + 1]
            \o HexCapitals[((code \div 16) % 16) + 1]
            \o HexCapitals[(code % 16) + 1]

\* The code units below U+0020.
IsControl(c) == \E code \in 0 .. 31 : Ascii[code + 1] = c

ControlCode(c) == CHOOSE code \in 0 .. 31 : Ascii[code + 1] = c

\* U+D800 .. U+DBFF and U+DC00 .. U+DFFF.
LeadingSurrogates == {CharOf(code) : code \in 55296 .. 56319}

TrailingSurrogates == {CharOf(code) : code \in 56320 .. 57343}

SurrogateCode(c) == CHOOSE code \in 55296 .. 57343 : CharOf(code) = c

\* The escape \uxxxx of a code, in lower case.
UnicodeEscape(code) ==
  <<"\\", "u", HexChars[(code \div 4096) + 1],
    HexChars[((code \div 256) % 16) + 1], HexChars[((code \div 16) % 16) + 1],
    HexChars[(code % 16) + 1]>>

\* The key is an array index in canonical form ("0", "2", "10"; not "02"),
\* at most 4294967294 = 2^32 - 2.
MaxIndex == <<"4", "2", "9", "4", "9", "6", "7", "2", "9", "4">>

IsIndex(key) ==
  /\ key # <<>>
  /\ \A j \in 1 .. Len(key) : IsDigit(key[j])
  /\ Len(key) > 1 => key[1] # "0"
  /\ \/ Len(key) < Len(MaxIndex)
     \/ Len(key) = Len(MaxIndex) /\ ~FractionLess(MaxIndex, key)

\* Index a is below index b.
IndexLess(a, b) ==
  \/ Len(a) < Len(b)
  \/ Len(a) = Len(b) /\ FractionLess(a, b)

\* Position of key among the own properties (0: absent).
IndexOfKey(own, key) ==
  IF \E j \in 1 .. Len(own) : own[j].key = key
  THEN CHOOSE j \in 1 .. Len(own) : own[j].key = key
  ELSE 0

\* Number of the own properties that come before a new property key.
PlaceOf(own, key) ==
  IF IsIndex(key)
  THEN Cardinality({j \in 1 .. Len(own) :
                      /\ IsIndex(own[j].key)
                      /\ IndexLess(own[j].key, key)})
  ELSE Len(own)

\* CreateDataProperty: the own property is written, or created at its place
\* in the order of the keys.  No setter runs.
CreateDataProperty(object, key, value) ==
  LET own == object.own
      at == IndexOfKey(own, key)
      n == PlaceOf(own, key)
  IN  IF at # 0
      THEN [object EXCEPT !.own[at].value = value]
      ELSE [object EXCEPT !.own =
              SubSeq(own, 1, n) \o <<[key |-> key, value |-> value]>>
                \o SubSeq(own, n + 1, Len(own))]

ProtoKey == <<"_", "_", "p", "r", "o", "t", "o", "_", "_">>

\* The prototype chain from proto on reaches the accessor __proto__ of
\* Object.prototype, and no data property __proto__ before it.
RECURSIVE InheritsProtoAccessor(_)
InheritsProtoAccessor(proto) ==
  CASE proto.t = "object" ->
         /\ IndexOfKey(proto.own, ProtoKey) = 0
         /\ InheritsProtoAccessor(proto.proto)
    [] proto.t \in {"prototype", "array"} -> TRUE
    [] OTHER -> FALSE

\* object[key] = value.  An own property is written.  Otherwise the key
\* __proto__ runs the setter of Object.prototype when the object inherits
\* it: an object or null becomes the prototype, any other value is dropped,
\* and no own property is created.  Every other key is created as an own
\* property, at its place in the order of the keys.
Put(object, key, value) ==
  IF /\ IndexOfKey(object.own, key) = 0
     /\ key = ProtoKey
     /\ InheritsProtoAccessor(object.proto)
  THEN IF IsObject(value) \/ value = Null
       THEN [object EXCEPT !.proto = value]
       ELSE object
  ELSE CreateDataProperty(object, key, value)

\* Object.fromEntries(entries).
RECURSIVE ObjectFromEntries(_, _)
ObjectFromEntries(object, entries) ==
  IF entries = <<>> THEN object
  ELSE ObjectFromEntries(
         CreateDataProperty(object, Head(entries).key, Head(entries).value),
         Tail(entries))

\* Object.keys(instance), instance not null and not undefined: of a string
\* and of an array the indices, of a number and of a boolean none.
Keys(instance) ==
  CASE instance.t = "object" ->
         [j \in 1 .. Len(instance.own) |-> instance.own[j].key]
    [] instance.t = "array" ->
         [j \in 1 .. Len(instance.items) |-> NatToString(j - 1)]
    [] instance.t = "string" ->
         [j \in 1 .. Len(instance.s) |-> NatToString(j - 1)]
    [] OTHER -> <<>>

\* Object.values(instance): of a string its code units, each a string.
ObjectValues(instance) ==
  CASE instance.t = "object" ->
         [j \in 1 .. Len(instance.own) |-> instance.own[j].value]
    [] instance.t = "array" -> instance.items
    [] instance.t = "string" ->
         [j \in 1 .. Len(instance.s) |-> Str(<<instance.s[j]>>)]
    [] OTHER -> <<>>

\* QuoteJSONString, one code unit that is not half of a surrogate pair.
EscapeUnit(c) ==
  IF c \in {"\"", "\\"} THEN <<"\\", c>>
  ELSE IF c = CharOf(8) THEN <<"\\", "b">>
  ELSE IF c = "\t" THEN <<"\\", "t">>
  ELSE IF c = "\n" THEN <<"\\", "n">>
  ELSE IF c = "\f" THEN <<"\\", "f">>
  ELSE IF c = "\r" THEN <<"\\", "r">>
  ELSE IF IsControl(c) THEN UnicodeEscape(ControlCode(c))
  ELSE IF c \in LeadingSurrogates \cup TrailingSurrogates
  THEN UnicodeEscape(SurrogateCode(c))
  ELSE <<c>>

\* QuoteJSONString without the quotes: a surrogate pair is copied, every
\* other code unit is escaped on its own.
RECURSIVE Escape(_)
Escape(chars) ==
  IF chars = <<>> THEN <<>>
  ELSE IF /\ Len(chars) > 1
          /\ chars[1] \in LeadingSurrogates
          /\ chars[2] \in TrailingSurrogates
  THEN <<chars[1], chars[2]>> \o Escape(SubSeq(chars, 3, Len(chars)))
  ELSE EscapeUnit(Head(chars)) \o Escape(Tail(chars))

Quote(chars) == <<"\"">> \o Escape(chars) \o <<"\"">>

\* A property or element that JSON.stringify does not write.
Unwritten(v) == v.t = "undefined"

\* SerializeJSONProperty for a value that is written, SerializeJSONObject
\* and SerializeJSONArray, without indentation.
RECURSIVE SerializeValue(_), SerializeMembers(_), SerializeElements(_)
SerializeValue(v) ==
  CASE v.t = "number" ->
         IF v.kind \in {"NaN", "Infinity"} THEN <<"n", "u", "l", "l">>
         ELSE NumberToString(v)
    [] v.t = "string" -> Quote(v.s)
    [] v.t = "boolean" -> IF v.b THEN <<"t", "r", "u", "e">>
                          ELSE <<"f", "a", "l", "s", "e">>
    [] v.t = "null" -> <<"n", "u", "l", "l">>
    [] v.t = "array" -> <<"[">> \o SerializeElements(v.items) \o <<"]">>
    [] v.t = "object" -> <<"{">> \o SerializeMembers(v.own) \o <<"}">>

\* The own properties of an object: one that is not written is left out.
SerializeMembers(own) ==
  IF own = <<>> THEN <<>>
  ELSE IF Unwritten(Head(own).value) THEN SerializeMembers(Tail(own))
  ELSE LET rest == SerializeMembers(Tail(own))
       IN  Quote(Head(own).key) \o <<":">> \o SerializeValue(Head(own).value)
             \o (IF rest = <<>> THEN <<>> ELSE <<",">> \o rest)

\* The elements of an array: one that is not written is null.
SerializeElements(items) ==
  IF items = <<>> THEN <<>>
  ELSE (IF Unwritten(Head(items)) THEN <<"n", "u", "l", "l">>
        ELSE SerializeValue(Head(items)))
         \o (IF Tail(items) = <<>> THEN <<>>
             ELSE <<",">> \o SerializeElements(Tail(items)))

\* JSON.stringify(value): a string, or undefined for a value that is not
\* written.
JSONstringify(value) ==
  IF Unwritten(value) THEN Undefined ELSE Str(SerializeValue(value))

\* function getJSON(obj) { return JSON.stringify(obj); }
getJSON(obj) == JSONstringify(obj)

\* JSON.parse.  A parse step gives [ok, val, pos]: whether the text was
\* well formed so far, what was read, and the position after it.
At(text, pos) == IF pos \in 1 .. Len(text) THEN text[pos] ELSE "EOF"

Parsed(val, pos) == [ok |-> TRUE, val |-> val, pos |-> pos]

SyntaxError == [ok |-> FALSE, val |-> Undefined, pos |-> 0]

\* White space between the tokens: space, tab, line feed, carriage return.
RECURSIVE SkipWhiteSpace(_, _)
SkipWhiteSpace(text, pos) ==
  IF At(text, pos) \in {" ", "\t", "\n", "\r"}
  THEN SkipWhiteSpace(text, pos + 1)
  ELSE pos

\* The code unit an escape \c stands for.
SingleEscapes == {"\"", "\\", "/", "b", "f", "n", "r", "t"}

SingleEscape(c) ==
  CASE c = "b" -> CharOf(8)
    [] c = "f" -> "\f"
    [] c = "n" -> "\n"
    [] c = "r" -> "\r"
    [] c = "t" -> "\t"
    [] OTHER -> c

\* The code units of a string after its opening quote: val is what they
\* stand for.  A code unit below U+0020 must be escaped.
RECURSIVE ScanString(_, _, _)
ScanString(text, pos, acc) ==
  LET c == At(text, pos)
      e == At(text, pos + 1)
  IN  IF c = "EOF" \/ IsControl(c) THEN SyntaxError
      ELSE IF c = "\"" THEN Parsed(acc, pos + 1)
      ELSE IF c # "\\" THEN ScanString(text, pos + 1, Append(acc, c))
      ELSE IF e \in SingleEscapes
      THEN ScanString(text, pos + 2, Append(acc, SingleEscape(e)))
      ELSE IF e = "u" /\ \A j \in 2 .. 5 : IsHexDigit(At(text, pos + j))
      THEN ScanString(text, pos + 6,
             Append(acc, CharOf(4096 * HexValue(text[pos + 2])
                                  + 256 * HexValue(text[pos + 3])
                                  + 16 * HexValue(text[pos + 4])
                                  + HexValue(text[pos + 5]))))
      ELSE SyntaxError

\* A string: val is its code units.
ParseString(text, pos) ==
  IF At(text, pos) = "\"" THEN ScanString(text, pos + 1, <<>>)
  ELSE SyntaxError

EndOfDigits(text, pos) ==
  CHOOSE end \in pos .. (IF pos > Len(text) THEN pos ELSE Len(text) + 1) :
    /\ ~IsDigit(At(text, end))
    /\ \A i \in pos .. end - 1 : IsDigit(At(text, i))

\* The exponent written by digits after the sign: an integer of any size.
Exponent(negative, digits) == Signed(negative, ToBig(digits))

\* A number: -? int frac? exp?, int without a leading zero.
ParseNumber(text, pos) ==
  LET neg == At(text, pos) = "-"
      first == IF neg THEN pos + 1 ELSE pos
      intEnd == EndOfDigits(text, first)
      int == SubSeq(text, first, intEnd - 1)
      hasFrac == At(text, intEnd) = "."
      fracEnd == IF hasFrac THEN EndOfDigits(text, intEnd + 1) ELSE intEnd
      frac == IF hasFrac THEN SubSeq(text, intEnd + 1, fracEnd - 1) ELSE <<>>
      hasExp == At(text, fracEnd) \in {"e", "E"}
      signed == At(text, fracEnd + 1) \in {"+", "-"}
      expFirst == IF signed THEN fracEnd + 2 ELSE fracEnd + 1
      expEnd == IF hasExp THEN EndOfDigits(text, expFirst) ELSE fracEnd
      expDigits == IF hasExp THEN SubSeq(text, expFirst, expEnd - 1) ELSE <<>>
      exp == Exponent(At(text, fracEnd + 1) = "-", expDigits)
  IN  IF \/ int = <<>>
         \/ Len(int) > 1 /\ int[1] = "0"
         \/ hasFrac /\ frac = <<>>
         \/ hasExp /\ expDigits = <<>>
      THEN SyntaxError
      ELSE Parsed(Scientific(neg, DropLeadingZeros(int \o frac),
                             SignedSum(exp, SignedOf(0 - Len(frac)))),
                  expEnd)

ParseLiteral(text, pos, word, v) ==
  IF pos + Len(word) - 1 <= Len(text)
     /\ SubSeq(text, pos, pos + Len(word) - 1) = word
  THEN Parsed(v, pos + Len(word))
  ELSE SyntaxError

\* A value at pos, the members of an object after '{' or ',', and the
\* elements of an array after '[' or ','.  The properties of an object are
\* created in the order of the text, by CreateDataProperty.
RECURSIVE ParseValue(_, _), ParseMembers(_, _, _), ParseElements(_, _, _)
ParseValue(text, pos) ==
  LET c == At(text, pos)
      inside == SkipWhiteSpace(text, pos + 1)
  IN  IF c = "{"
      THEN IF At(text, inside) = "}"
           THEN Parsed(NewObject(ObjectPrototype), inside + 1)
           ELSE ParseMembers(text, inside, NewObject(ObjectPrototype))
      ELSE IF c = "["
      THEN IF At(text, inside) = "]" THEN Parsed(Arr(<<>>), inside + 1)
           ELSE ParseElements(text, inside, <<>>)
      ELSE IF c = "\""
      THEN LET r == ParseString(text, pos)
           IN  IF r.ok THEN Parsed(Str(r.val), r.pos) ELSE SyntaxError
      ELSE IF c = "t" THEN ParseLiteral(text, pos, <<"t", "r", "u", "e">>, Bool(TRUE))
      ELSE IF c = "f"
      THEN ParseLiteral(text, pos, <<"f", "a", "l", "s", "e">>, Bool(FALSE))
      ELSE IF c = "n" THEN ParseLiteral(text, pos, <<"n", "u", "l", "l">>, Null)
      ELSE IF c = "-" \/ IsDigit(c) THEN ParseNumber(text, pos)
      ELSE SyntaxError

ParseMembers(text, pos, object) ==
  LET k == ParseString(text, pos)
      colon == SkipWhiteSpace(text, k.pos)
  IN  IF ~k.ok \/ At(text, colon) # ":" THEN SyntaxError
      ELSE LET v == ParseValue(text, SkipWhiteSpace(text, colon + 1))
               after == SkipWhiteSpace(text, v.pos)
               read == CreateDataProperty(object, k.val, v.val)
           IN  IF ~v.ok THEN SyntaxError
               ELSE IF At(text, after) = ","
               THEN ParseMembers(text, SkipWhiteSpace(text, after + 1), read)
               ELSE IF At(text, after) = "}" THEN Parsed(read, after + 1)
               ELSE SyntaxError

ParseElements(text, pos, items) ==
  LET v == ParseValue(text, pos)
      after == SkipWhiteSpace(text, v.pos)
  IN  IF ~v.ok THEN SyntaxError
      ELSE IF At(text, after) = ","
      THEN ParseElements(text, SkipWhiteSpace(text, after + 1),
                         Append(items, v.val))
      ELSE IF At(text, after) = "]"
      THEN Parsed(Arr(Append(items, v.val)), after + 1)
      ELSE SyntaxError

\* JSON.parse(text): [ok, val]; ok is FALSE when it throws a SyntaxError.
JSONparse(text) ==
  LET r == ParseValue(text, SkipWhiteSpace(text, 1))
  IN  IF r.ok /\ SkipWhiteSpace(text, r.pos) = Len(text) + 1
      THEN [ok |-> TRUE, val |-> r.val]
      ELSE [ok |-> FALSE, val |-> Undefined]

\* new SpecialObj(...values) with SpecialObj.prototype = proto: on the new
\* object, this[keys[index]] = value runs for each value in turn.
RECURSIVE SpecialObj(_, _, _, _)
SpecialObj(this, keys, args, index) ==
  IF index > Len(args) THEN this
  ELSE SpecialObj(Put(this, keys[index], args[index]), keys, args, index + 1)

\* fromJSON(proto, json), json a string: [ok, error, val]; ok is FALSE when
\* JSON.parse throws a SyntaxError and when Object.keys throws a TypeError,
\* which it does for null.  The new object has the prototype proto when
\* proto is an object and Object.prototype when it is not.
fromJSON(proto, json) ==
  LET parsed == JSONparse(json.s)
      instance == parsed.val
      keys == Keys(instance)
      values == ObjectValues(instance)
      this == NewObject(IF IsObject(proto) THEN proto ELSE ObjectPrototype)
  IN  IF ~parsed.ok
      THEN [ok |-> FALSE, error |-> "SyntaxError", val |-> Undefined]
      ELSE IF instance = Null
      THEN [ok |-> FALSE, error |-> "TypeError", val |-> Undefined]
      ELSE [ok |-> TRUE, error |-> "none",
            val |-> SpecialObj(this, keys, values, 1)]

\* Inputs: the keys and values of the object given to getJSON, and the
\* prototypes given to fromJSON.
PropertyKeys == {<<"a">>, <<"2">>, <<"1", "0">>, ProtoKey}

PropertyValues ==
  {Num(0), Num(-3),
   Decimal(FALSE, <<"9", "0", "0", "7", "1", "9", "9", "2",
                    "5", "4", "7", "4", "0", "9", "9", "2">>, 0),
   Str(<<"1", "0">>),
   Str(<<"\"", "\\", "\n">>), Bool(TRUE), Null,
   Arr(<<Decimal(TRUE, <<"1", "5">>, -1), Str(<<"a">>),
         Decimal(FALSE, <<"1">>, 21)>>),
   CreateDataProperty(NewObject(ObjectPrototype), <<"b">>, Null)}

Prototypes == {Proto("Circle.prototype"), Proto("Rectangle.prototype")}

RECURSIVE SeqsUpTo(_, _)
SeqsUpTo(S, n) ==
  IF n = 0 THEN {<<>>}
  ELSE LET shorter == SeqsUpTo(S, n - 1)
       IN  shorter \cup {Append(q, x) : q \in shorter, x \in S}

\* The plain key-value objects of at most MaxProps properties.
PlainObjects ==
  {ObjectFromEntries(NewObject(ObjectPrototype), entries) :
     entries \in SeqsUpTo([key : PropertyKeys, value : PropertyValues],
                          MaxProps)}

(***************************************************************************)
(* State.                                                                  *)
(***************************************************************************)
VARIABLES
  heap,      \* the instances constructed so far, in order of construction
  op,        \* the entry point of the last call
  self,      \* the instance the last call ran on
  thrown,    \* the message of the Error the last call threw, or NoError
  returned,  \* the instance the last call returned (0: none)
  text,      \* <<t>> when the last call was stringify and returned t
  log,       \* per instance, the append and combine invocations made on it
  calls,     \* number of calls made so far
  budget     \* number of calls the behaviour may make

VARIABLES
  stage,     \* how far the round trip through getJSON and fromJSON has come
  obj,       \* the object given to getJSON
  proto,     \* the prototype given to fromJSON
  json,      \* the string getJSON(obj) returned
  created,   \* the object fromJSON(proto, json) returned
  json2      \* the string getJSON(created) returned

builderVars == <<heap, op, self, thrown, returned, text, log, calls>>

jsonVars == <<stage, obj, proto, json, created, json2>>

vars == <<heap, op, self, thrown, returned, text, log, calls, budget,
          stage, obj, proto, json, created, json2>>

\* No round trip under way.
NoRoundTrip ==
  /\ stage = "none"
  /\ obj = Undefined
  /\ proto = Undefined
  /\ json = Undefined
  /\ created = Undefined
  /\ json2 = Undefined

Instances == 1 .. Len(heap)

Entry(name, value, s1, s2, msg) ==
  [op |-> name, value |-> value, s1 |-> s1, s2 |-> s2, thrown |-> msg]

Init ==
  /\ heap = <<>>
  /\ op = "none"
  /\ self = 0
  /\ thrown = NoError
  /\ returned = 0
  /\ text = <<>>
  /\ log = <<>>
  /\ calls = 0
  /\ budget = MaxCalls
  /\ NoRoundTrip

\* instance.<name>(...) on an existing instance, completing with r.
Invoke(i, name, value, s1, s2, r) ==
  /\ calls < budget
  /\ calls' = calls + 1
  /\ UNCHANGED <<budget, jsonVars>>
  /\ heap' = [heap EXCEPT ![i] = r.this]
  /\ op' = name
  /\ self' = i
  /\ thrown' = r.thrown
  /\ returned' = IF r.thrown = NoError THEN i ELSE 0
  /\ text' = <<>>
  /\ log' = [log EXCEPT ![i] = Append(@, Entry(name, value, s1, s2, r.thrown))]

\* Variant: the facade keeps one instance and hands it out again.
FacadeShared(name, value, s1, s2, r, instance) ==
  /\ calls < budget
  /\ calls' = calls + 1
  /\ UNCHANGED <<budget, jsonVars>>
  /\ op' = "cssSelectorBuilder." \o name
  /\ thrown' = r.thrown
  /\ text' = <<>>
  /\ IF heap = <<>>
     THEN /\ heap' = <<instance>>
          /\ log' = <<(<<Entry(name, value, s1, s2, r.thrown)>>)>>
     ELSE /\ heap' = [heap EXCEPT ![Len(heap)] = instance]
          /\ log' = [log EXCEPT ![Len(heap)] =
                       Append(@, Entry(name, value, s1, s2, r.thrown))]
  /\ self' = Len(heap')
  /\ returned' = Len(heap')

\* A facade function: r is the completion of the method on the new instance,
\* flags the instance as the facade leaves it.  When the method throws, the
\* Error leaves the facade function and the instance is never returned.
Facade(name, value, s1, s2, r, instance) ==
  /\ calls < budget
  /\ calls' = calls + 1
  /\ UNCHANGED <<budget, jsonVars>>
  /\ op' = "cssSelectorBuilder." \o name
  /\ thrown' = r.thrown
  /\ text' = <<>>
  /\ IF r.thrown = NoError
     THEN /\ heap' = Append(heap, instance)
          /\ log' = Append(log, <<Entry(name, value, s1, s2, r.thrown)>>)
          /\ self' = Len(heap) + 1
          /\ returned' = Len(heap) + 1
     ELSE /\ UNCHANGED <<heap, log>>
          /\ self' = 0
          /\ returned' = 0

CallElement(i, value) ==
  Invoke(i, "element", value, 0, 0, element(heap[i], value))

CallId(i, value) ==
  Invoke(i, "id", value, 0, 0, id(heap[i], value))

CallClass(i, value) ==
  Invoke(i, "class", value, 0, 0, class(heap[i], value))

CallAttr(i, value) ==
  Invoke(i, "attr", value, 0, 0, attr(heap[i], value))

CallPseudoClass(i, value) ==
  Invoke(i, "pseudoClass", value, 0, 0, pseudoClass(heap[i], value))

CallPseudoElement(i, value) ==
  Invoke(i, "pseudoElement", value, 0, 0, pseudoElement(heap[i], value))

CallCombine(i, s1, combinator, s2) ==
  Invoke(i, "combine", combinator, s1, s2,
         combine(heap[i], heap[s1], combinator, heap[s2]))

\* Variant: stringify empties the instance once the text is built.
CallStringifyResetting(i) ==
  /\ calls < budget
  /\ calls' = calls + 1
  /\ UNCHANGED <<budget, jsonVars>>
  /\ op' = "stringify"
  /\ self' = i
  /\ thrown' = NoError
  /\ returned' = 0
  /\ text' = <<stringify(heap[i])>>
  /\ heap' = [heap EXCEPT ![i] = MySuperBaseElementSelector]
  /\ UNCHANGED log

CallStringify(i) ==
  /\ calls < budget
  /\ calls' = calls + 1
  /\ UNCHANGED <<budget, jsonVars>>
  /\ op' = "stringify"
  /\ self' = i
  /\ thrown' = NoError
  /\ returned' = 0
  /\ text' = <<stringify(heap[i])>>
  /\ UNCHANGED <<heap, log>>

cssSelectorBuilder_element(value) ==
  LET r == element(MySuperBaseElementSelector, value)
  IN  Facade("element", value, 0, 0, r, [r.this EXCEPT !.hasElement = TRUE])

cssSelectorBuilder_id(value) ==
  LET r == id(MySuperBaseElementSelector, value)
  IN  Facade("id", value, 0, 0, r, [r.this EXCEPT !.hasId = TRUE])

cssSelectorBuilder_class(value) ==
  LET r == class(MySuperBaseElementSelector, value)
  IN  Facade("class", value, 0, 0, r, r.this)

cssSelectorBuilder_attr(value) ==
  LET r == attr(MySuperBaseElementSelector, value)
  IN  Facade("attr", value, 0, 0, r, r.this)

cssSelectorBuilder_pseudoClass(value) ==
  LET r == pseudoClass(MySuperBaseElementSelector, value)
  IN  Facade("pseudoClass", value, 0, 0, r, r.this)

cssSelectorBuilder_pseudoElement(value) ==
  LET r == pseudoElement(MySuperBaseElementSelector, value)
  IN  Facade("pseudoElement", value, 0, 0, r,
             [r.this EXCEPT !.hasPseudoElement = TRUE])

\* Variant: the new instance takes over the ranks and flags of selector2.
cssSelectorBuilder_combineInheriting(s1, combinator, s2) ==
  LET r == combine(MySuperBaseElementSelector, heap[s1], combinator, heap[s2])
  IN  Facade("combine", combinator, s1, s2, r,
             [heap[s2] EXCEPT !.arr = r.this.arr])

cssSelectorBuilder_combine(s1, combinator, s2) ==
  LET r == combine(MySuperBaseElementSelector, heap[s1], combinator, heap[s2])
  IN  Facade("combine", combinator, s1, s2, r, r.this)

Next ==
  \/ \E i \in Instances, value \in Values : CallElement(i, value)
  \/ \E i \in Instances, value \in Values : CallId(i, value)
  \/ \E i \in Instances, value \in Values : CallClass(i, value)
  \/ \E i \in Instances, value \in Values : CallAttr(i, value)
  \/ \E i \in Instances, value \in Values : CallPseudoClass(i, value)
  \/ \E i \in Instances, value \in Values : CallPseudoElement(i, value)
  \/ \E i \in Instances, s1 \in Instances, s2 \in Instances :
       \E combinator \in Combinators : CallCombine(i, s1, combinator, s2)
  \/ \E i \in Instances : CallStringify(i)
  \/ \E value \in Values : cssSelectorBuilder_element(value)
  \/ \E value \in Values : cssSelectorBuilder_id(value)
  \/ \E value \in Values : cssSelectorBuilder_class(value)
  \/ \E value \in Values : cssSelectorBuilder_attr(value)
  \/ \E value \in Values : cssSelectorBuilder_pseudoClass(value)
  \/ \E value \in Values : cssSelectorBuilder_pseudoElement(value)
  \/ \E s1 \in Instances, s2 \in Instances :
       \E combinator \in Combinators :
         cssSelectorBuilder_combine(s1, combinator, s2)

Spec == Init /\ [][Next]_vars

(***************************************************************************)
(* One selector built out of class, attr and pseudoClass fragments only:   *)
(* the facade is called once, every later call is a method of the          *)
(* instance it returned.                                                   *)
(***************************************************************************)
InitRepeat ==
  /\ heap = <<>>
  /\ op = "none"
  /\ self = 0
  /\ thrown = NoError
  /\ returned = 0
  /\ text = <<>>
  /\ log = <<>>
  /\ calls = 0
  /\ budget = MaxRepeatCalls
  /\ NoRoundTrip

NextRepeat ==
  \/ heap = <<>> /\ \E value \in Values : cssSelectorBuilder_class(value)
  \/ heap = <<>> /\ \E value \in Values : cssSelectorBuilder_attr(value)
  \/ heap = <<>> /\ \E value \in Values : cssSelectorBuilder_pseudoClass(value)
  \/ \E i \in Instances, value \in Values : CallClass(i, value)
  \/ \E i \in Instances, value \in Values : CallAttr(i, value)
  \/ \E i \in Instances, value \in Values : CallPseudoClass(i, value)

SpecRepeat == InitRepeat /\ [][NextRepeat]_vars

(***************************************************************************)
(* One combination through the facade: up to two selectors that hold a     *)
(* flag are begun through the facade, cssSelectorBuilder.combine is called *)
(* on them once, and every later call appends to the instance it returned. *)
(***************************************************************************)
InitCombined ==
  /\ heap = <<>>
  /\ op = "none"
  /\ self = 0
  /\ thrown = NoError
  /\ returned = 0
  /\ text = <<>>
  /\ log = <<>>
  /\ calls = 0
  /\ budget = MaxCombinedCalls
  /\ NoRoundTrip

\* The instances cssSelectorBuilder.combine returned.
FacadeCombined == {i \in Instances : log[i][1].op = "combine"}

NextCombined ==
  \/ FacadeCombined = {} /\ Len(heap) < 2
       /\ \E value \in Values : cssSelectorBuilder_element(value)
  \/ FacadeCombined = {} /\ Len(heap) < 2
       /\ \E value \in Values : cssSelectorBuilder_id(value)
  \/ FacadeCombined = {} /\ Len(heap) < 2
       /\ \E value \in Values : cssSelectorBuilder_pseudoElement(value)
  \/ FacadeCombined = {}
       /\ \E s1 \in Instances, s2 \in Instances :
            \E combinator \in Combinators :
              cssSelectorBuilder_combine(s1, combinator, s2)
  \/ \E i \in FacadeCombined, value \in Values : CallElement(i, value)
  \/ \E i \in FacadeCombined, value \in Values : CallId(i, value)
  \/ \E i \in FacadeCombined, value \in Values : CallClass(i, value)
  \/ \E i \in FacadeCombined, value \in Values : CallAttr(i, value)
  \/ \E i \in FacadeCombined, value \in Values : CallPseudoClass(i, value)
  \/ \E i \in FacadeCombined, value \in Values : CallPseudoElement(i, value)

SpecCombined == InitCombined /\ [][NextCombined]_vars

(***************************************************************************)
(* The round trip getJSON(fromJSON(proto, getJSON(obj))).                  *)
(***************************************************************************)
InitJSON ==
  /\ heap = <<>>
  /\ op = "none"
  /\ self = 0
  /\ thrown = NoError
  /\ returned = 0
  /\ text = <<>>
  /\ log = <<>>
  /\ calls = 0
  /\ budget = 0
  /\ stage = "input"
  /\ obj \in PlainObjects
  /\ proto \in Prototypes
  /\ json = Undefined
  /\ created = Undefined
  /\ json2 = Undefined

CallGetJSON ==
  /\ stage = "input"
  /\ json' = getJSON(obj)
  /\ stage' = "encoded"
  /\ UNCHANGED <<builderVars, budget, obj, proto, created, json2>>

CallFromJSON ==
  /\ stage = "encoded"
  /\ LET r == fromJSON(proto, json)
     IN  /\ created' = r.val
         /\ stage' = IF r.ok THEN "decoded" ELSE "threw"
  /\ UNCHANGED <<builderVars, budget, obj, proto, json, json2>>

CallGetJSONAgain ==
  /\ stage = "decoded"
  /\ json2' = getJSON(created)
  /\ stage' = "reencoded"
  /\ UNCHANGED <<builderVars, budget, obj, proto, json, created>>

NextJSON ==
  \/ CallGetJSON
  \/ CallFromJSON
  \/ CallGetJSONAgain

SpecJSON == InitJSON /\ [][NextJSON]_vars

(***************************************************************************)
(* Vocabulary of the properties.                                           *)
(***************************************************************************)
AppendOps == {"element", "id", "class", "attr", "pseudoClass", "pseudoElement"}

SingletonOps == {"element", "id", "pseudoElement"}

FacadeOps == {"cssSelectorBuilder." \o name : name \in AppendOps \cup {"combine"}}

\* The rank table: element=1, id=2, class=3, attr=4, pseudoClass=5,
\* pseudoElement=6.
Rank(name) ==
  CASE name = "element" -> 1
    [] name = "id" -> 2
    [] name = "class" -> 3
    [] name = "attr" -> 4
    [] name = "pseudoClass" -> 5
    [] name = "pseudoElement" -> 6

\* The decorated text of a fragment.
Decorated(name, value) ==
  CASE name = "element" -> value
    [] name = "id" -> "#" \o value
    [] name = "class" -> "." \o value
    [] name = "attr" -> "[" \o value \o "]"
    [] name = "pseudoClass" -> ":" \o value
    [] name = "pseudoElement" -> "::" \o value

\* The singleton flag of a kind on an instance (none for the other kinds).
Seen(this, name) ==
  CASE name = "element" -> this.hasElement
    [] name = "id" -> this.hasId
    [] name = "pseudoElement" -> this.hasPseudoElement
    [] OTHER -> FALSE

\* The most recently recorded rank is strictly greater than number.
LastRankAbove(this, number) ==
  /\ this.order # <<>>
  /\ this.order[Len(this.order)] > number

\* What the duplicate check followed by the order check makes of a call.
UsualChecks(this, name) ==
  IF Seen(this, name) THEN DuplicateMsg
  ELSE IF LastRankAbove(this, Rank(name)) THEN OrderMsg
  ELSE NoError

OpsOf(l) == [j \in 1 .. Len(l) |-> l[j].op]

NoCombine(l) == \A j \in 1 .. Len(l) : l[j].op # "combine"

\* This step is a call (stringify excluded) of a method on the existing
\* instance i; NewEntry(i) is the invocation.
MethodStep(i) ==
  /\ calls' = calls + 1
  /\ Len(heap') = Len(heap)
  /\ Len(log'[i]) = Len(log[i]) + 1

\* This step is a call of a facade function.
FacadeStep == calls' = calls + 1 /\ op' \in FacadeOps

NewEntry(i) == log'[i][Len(log'[i])]

LastEntry(i) == log[i][Len(log[i])]

\* The last call was an append method called on the existing instance i.
LastCallAppendOn(i) ==
  /\ self = i
  /\ op \in AppendOps

\* ---- C1 ---------------------------------------------------------------
\* C1: an append whose singleton kind has not been appended yet throws the
\* out-of-order error exactly when the most recently recorded rank of the
\* instance is strictly greater than the rank being appended; otherwise (an
\* equal or greater rank, or no recorded rank) it is accepted and returns
\* the instance.  class, attr, class throws on the second class; id then
\* element throws on element.
C1_OrderCheck ==
  [][\A i \in Instances :
       (MethodStep(i) /\ NewEntry(i).op \in AppendOps
                      /\ ~Seen(heap[i], NewEntry(i).op))
       => /\ (thrown' = OrderMsg)
               <=> LastRankAbove(heap[i], Rank(NewEntry(i).op))
          /\ thrown' # OrderMsg => (thrown' = NoError /\ returned' = i)
          /\ OpsOf(log'[i]) = <<"class", "attr", "class">>
               => thrown' = OrderMsg
          /\ OpsOf(log'[i]) = <<"id", "element">> => thrown' = OrderMsg
    ]_vars

\* class, attr, class: the second class call has just thrown.
C1_Witness ==
  \E i \in Instances :
    /\ LastCallAppendOn(i)
    /\ OpsOf(log[i]) = <<"class", "attr", "class">>
    /\ thrown = OrderMsg

\* ---- C2 ---------------------------------------------------------------
\* C2: element, id or pseudoElement called on an instance on which the same
\* method was invoked before (by the facade function that created the
\* instance or by a chained call) throws the duplicate-fragment error.
C2_DuplicateRaises ==
  [][\A i \in Instances :
       (/\ MethodStep(i)
        /\ NewEntry(i).op \in SingletonOps
        /\ \E j \in 1 .. Len(log[i]) : log[i][j].op = NewEntry(i).op)
       => thrown' = DuplicateMsg
    ]_vars

\* element (facade), id (chained), id again: the duplicate error.
C2_Witness ==
  \E i \in Instances :
    /\ LastCallAppendOn(i)
    /\ OpsOf(log[i]) = <<"element", "id", "id">>
    /\ thrown = DuplicateMsg

\* ---- C3 ---------------------------------------------------------------
\* C3: an append that throws (either error) leaves the instance as it was:
\* same fragments, ranks and flags, hence the same stringify() text.
C3_FailedAppendLeavesState ==
  [][\A i \in Instances :
       (/\ MethodStep(i)
        /\ NewEntry(i).op \in AppendOps
        /\ thrown' \in {DuplicateMsg, OrderMsg})
       => /\ heap'[i] = heap[i]
          /\ stringify(heap'[i]) = stringify(heap[i])
    ]_vars

\* ---- C4 ---------------------------------------------------------------
\* C4: in every reachable state the recorded ranks of every instance are
\* non-decreasing.
C4_OrderNonDecreasing ==
  \A i \in Instances :
    \A j \in 1 .. Len(heap[i].order) - 1 :
      heap[i].order[j] <= heap[i].order[j + 1]

\* An instance with two recorded ranks on which a call has just thrown the
\* out-of-order error.
C4_Witness ==
  \E i \in Instances :
    /\ LastCallAppendOn(i)
    /\ thrown = OrderMsg
    /\ Len(heap[i].order) >= 2

\* ---- C5 ---------------------------------------------------------------
IsElementFragment(f) == \E value \in Values : f = value

IsIdFragment(f) == \E value \in Values : f = "#" \o value

IsPseudoElementFragment(f) == \E value \in Values : f = "::" \o value

\* C5: on an instance on which combine was never invoked, arr holds at most
\* one element fragment, at most one id fragment and at most one
\* pseudo-element fragment.
C5_SingletonsAtMostOnce ==
  \A i \in Instances :
    NoCombine(log[i]) =>
      LET arr == heap[i].arr
          at == 1 .. Len(arr)
      IN  /\ Cardinality({j \in at : IsElementFragment(arr[j])}) <= 1
          /\ Cardinality({j \in at : IsIdFragment(arr[j])}) <= 1
          /\ Cardinality({j \in at : IsPseudoElementFragment(arr[j])}) <= 1

\* An id call that threw the out-of-order error, then a second id call that
\* threw the duplicate error: one id fragment.
C5_Witness ==
  \E i \in Instances :
    /\ LastCallAppendOn(i)
    /\ op = "id"
    /\ thrown = DuplicateMsg
    /\ Len(log[i]) = 3
    /\ log[i][2].op = "id" /\ log[i][2].thrown = OrderMsg
    /\ Cardinality({j \in 1 .. Len(heap[i].arr) :
                      IsIdFragment(heap[i].arr[j])}) = 1

\* ---- C6 ---------------------------------------------------------------
\* A chain of appends in non-decreasing rank order, each singleton kind at
\* most once, no call failing.
Chain(l) ==
  /\ \A j \in 1 .. Len(l) : l[j].op \in AppendOps /\ l[j].thrown = NoError
  /\ \A j \in 1 .. Len(l) - 1 : Rank(l[j].op) <= Rank(l[j + 1].op)
  /\ \A j, k \in 1 .. Len(l) :
       (j # k /\ l[j].op = l[k].op) => l[j].op \notin SingletonOps

RECURSIVE DecoratedChain(_)
DecoratedChain(l) ==
  IF l = <<>> THEN ""
  ELSE Decorated(Head(l).op, Head(l).value) \o DecoratedChain(Tail(l))

\* C6: after such a chain stringify() gives the decorated texts of the
\* calls, in call order, with nothing between them.
C6_StringifyConcatenation ==
  \A i \in Instances :
    Chain(log[i]) =>
      /\ stringify(heap[i]) = DecoratedChain(log[i])
      /\ (op = "stringify" /\ self = i) => text = <<DecoratedChain(log[i])>>

\* stringify() has just returned the text of a chain of two fragments.
C6_Witness ==
  \E i \in Instances :
    /\ op = "stringify" /\ self = i
    /\ Chain(log[i])
    /\ Len(log[i]) >= 2
    /\ Len(heap[i].arr) = Len(log[i])
    /\ text = <<DecoratedChain(log[i])>>

\* ---- C7 ---------------------------------------------------------------
\* This step is an invocation of combine that made i the receiver: the
\* method called on i, or the facade function creating i.
CombineStep(i) ==
  /\ calls' = calls + 1
  /\ op' \in {"combine", "cssSelectorBuilder.combine"}
  /\ self' = i

\* C7: combine(a, c, b) leaves the receiver with exactly the three fragments
\* a.stringify(), ' ' + c + ' ', b.stringify(), whatever it held before, so
\* that its text is a's text, the padded combinator and b's text (three
\* spaces between the two texts when c is ' ').
C7_CombineReplaces ==
  [][\A i \in 1 .. Len(heap') :
       CombineStep(i) =>
         LET c == NewEntry(i).value
             a == stringify(heap[NewEntry(i).s1])
             b == stringify(heap[NewEntry(i).s2])
         IN  /\ heap'[i].arr = <<a, " " \o c \o " ", b>>
             /\ stringify(heap'[i]) = a \o " " \o c \o " " \o b
             /\ c = " " => stringify(heap'[i]) = a \o "   " \o b
    ]_vars

\* combine with ' ' has just run on an instance that held a fragment.
C7_Witness ==
  \E i \in Instances :
    /\ op = "combine" /\ self = i
    /\ Len(log[i]) >= 2
    /\ log[i][1].op \in AppendOps
    /\ LastEntry(i).op = "combine" /\ LastEntry(i).value = " "
    /\ Len(heap[i].arr) = 3

\* ---- C8 ---------------------------------------------------------------
\* The last invocation on instance s was combine.
Combined(s) == log[s] # <<>> /\ LastEntry(s).op = "combine"

\* C8: combine never throws, whatever the receiver and the arguments hold
\* (results of combine, texts with an element, an id or a pseudo-element),
\* and returns the receiver; an argument that is itself the result of
\* combine contributes its three texts in order.
C8_CombineNeverThrows ==
  [][(calls' = calls + 1
        /\ op' \in {"combine", "cssSelectorBuilder.combine"})
       => /\ thrown' = NoError
          /\ self' \in 1 .. Len(heap')
          /\ returned' = self'
          /\ LET e == NewEntry(self')
                 left == IF Combined(e.s1)
                         THEN heap[e.s1].arr[1] \o heap[e.s1].arr[2]
                                \o heap[e.s1].arr[3]
                         ELSE stringify(heap[e.s1])
                 right == IF Combined(e.s2)
                          THEN heap[e.s2].arr[1] \o heap[e.s2].arr[2]
                                 \o heap[e.s2].arr[3]
                          ELSE stringify(heap[e.s2])
             IN  stringify(heap'[self'])
                   = left \o " " \o e.value \o " " \o right
    ]_vars

\* A combine whose first argument is the result of a combine and whose two
\* arguments both hold an element has just returned.
C8_Witness ==
  \E i \in Instances :
    /\ op \in {"combine", "cssSelectorBuilder.combine"} /\ self = i
    /\ thrown = NoError
    /\ LET e == LastEntry(i)
       IN  /\ e.op = "combine"
           /\ e.s1 # i /\ e.s2 # i
           /\ Combined(e.s1)
           /\ heap[e.s2].hasElement
           /\ heap[LastEntry(e.s1).s1].hasElement

\* ---- C9 ---------------------------------------------------------------
\* C9: stringify() changes no instance and does not throw; it returns the
\* text of the fragments, the same text again when called twice in a row;
\* an append called after it is subject to the usual checks.
C9_StringifyPure ==
  [][/\ (calls' = calls + 1 /\ op' = "stringify")
          => /\ heap' = heap
             /\ thrown' = NoError
             /\ text' = <<stringify(heap[self'])>>
             /\ (op = "stringify" /\ self = self') => text' = text
     /\ \A i \in Instances :
          (/\ op = "stringify" /\ self = i
           /\ MethodStep(i)
           /\ NewEntry(i).op \in AppendOps)
          => thrown' = UsualChecks(heap[i], NewEntry(i).op)
    ]_vars

\* stringify() has just returned the text of an instance with fragments.
C9_Witness ==
  \E i \in Instances :
    /\ op = "stringify" /\ self = i
    /\ heap[i].arr # <<>>
    /\ text = <<stringify(heap[i])>>
    /\ calls >= 2

\* ---- C10 --------------------------------------------------------------
\* C10: a facade call constructs a new instance and returns it; a method
\* call constructs none; a call leaves every instance other than its
\* receiver as it was (the arguments of combine included).
C10_NoSharedState ==
  [][calls' = calls + 1
       => /\ FacadeStep => /\ Len(heap') = Len(heap) + 1
                           /\ self' = Len(heap')
                           /\ returned' = self'
          /\ ~FacadeStep => Len(heap') = Len(heap)
          /\ \A j \in Instances :
               j # self' => (j \in 1 .. Len(heap') /\ heap'[j] = heap[j])
    ]_vars

\* combine has just run on a receiver other than its two arguments.
C10_Witness ==
  \E i \in Instances :
    /\ op \in {"combine", "cssSelectorBuilder.combine"} /\ self = i
    /\ LastEntry(i).op = "combine"
    /\ LastEntry(i).s1 # i /\ LastEntry(i).s2 # i
    /\ heap[LastEntry(i).s1].arr # <<>>
    /\ heap[LastEntry(i).s2].arr # <<>>

\* ---- C11 --------------------------------------------------------------
RepeatOps == {"class", "attr", "pseudoClass"}

\* class any number of times, then attr any number of times, then
\* pseudoClass any number of times.
RepeatChain(l) ==
  /\ \A j \in 1 .. Len(l) : l[j].op \in RepeatOps
  /\ \A j \in 1 .. Len(l) - 1 : Rank(l[j].op) <= Rank(l[j + 1].op)

CountOp(l, name) == Cardinality({j \in 1 .. Len(l) : l[j].op = name})

\* C11: no call of class, attr or pseudoClass throws the duplicate error,
\* and in a chain of classes, then attrs, then pseudoClasses, however many
\* of each, no call throws at all and every fragment is kept.
C11_RepeatableKinds ==
  \A i \in Instances :
    /\ \A j \in 1 .. Len(log[i]) :
         log[i][j].op \in RepeatOps => log[i][j].thrown # DuplicateMsg
    /\ RepeatChain(log[i]) =>
         /\ \A j \in 1 .. Len(log[i]) : log[i][j].thrown = NoError
         /\ Len(heap[i].arr) = Len(log[i])
         /\ Len(heap[i].order) = Len(log[i])

\* class twice, attr twice, pseudoClass twice on one instance.
C11_Witness ==
  \E i \in Instances :
    /\ RepeatChain(log[i])
    /\ CountOp(log[i], "class") >= 2
    /\ CountOp(log[i], "attr") >= 2
    /\ CountOp(log[i], "pseudoClass") >= 2
    /\ op = "pseudoClass" /\ self = i /\ thrown = NoError

\* ---- C13 --------------------------------------------------------------
\* The invocation was an append that returned.
Accepted(e) == e.op \in AppendOps /\ e.thrown = NoError

\* The ranks the invocations of l recorded, in order.
RecordedRanks(l) ==
  LET acc == SelectSeq(l, Accepted)
  IN  [j \in 1 .. Len(acc) |-> Rank(acc[j].op)]

\* What the duplicate check and the order check make of an append of kind
\* name after the invocations of l, judged by these invocations alone.
ChecksAfter(l, name) ==
  LET ranks == RecordedRanks(l)
  IN  IF name \in SingletonOps /\ \E j \in 1 .. Len(l) : l[j].op = name
      THEN DuplicateMsg
      ELSE IF ranks # <<>> /\ ranks[Len(ranks)] > Rank(name)
      THEN OrderMsg
      ELSE NoError

\* C13: combine called on an instance changes its arr only: order and the
\* three flags are as before, and an append that follows on an instance
\* that held fragments is checked against the ranks and flags of the
\* invocations made before combine.
C13_CombineKeepsRanksAndFlags ==
  [][\A i \in Instances :
       MethodStep(i) =>
         /\ NewEntry(i).op = "combine"
              => /\ heap'[i].order = heap[i].order
                 /\ heap'[i].hasElement = heap[i].hasElement
                 /\ heap'[i].hasId = heap[i].hasId
                 /\ heap'[i].hasPseudoElement = heap[i].hasPseudoElement
         /\ (/\ NewEntry(i).op \in AppendOps
             /\ log[i][1].op # "combine"
             /\ ~NoCombine(log[i]))
              => /\ thrown' = ChecksAfter(log[i], NewEntry(i).op)
                 /\ heap[i].order = RecordedRanks(log[i])
    ]_vars

\* class, combine, id on one instance: the id call has just thrown the
\* out-of-order error.
C13_Witness ==
  \E i \in Instances :
    /\ LastCallAppendOn(i)
    /\ OpsOf(log[i]) = <<"class", "combine", "id">>
    /\ thrown = OrderMsg

\* ---- C14 --------------------------------------------------------------
IsClassFragment(f) == \E value \in Values : f = "." \o value

IsAttrFragment(f) == \E value \in Values : f = "[" \o value \o "]"

IsPseudoClassFragment(f) == \E value \in Values : f = ":" \o value

\* The rank of the kind of a fragment (0: no fragment of an append).
FragmentRank(f) ==
  CASE IsElementFragment(f) -> 1
    [] IsIdFragment(f) -> 2
    [] IsClassFragment(f) -> 3
    [] IsAttrFragment(f) -> 4
    [] IsPseudoClassFragment(f) -> 5
    [] IsPseudoElementFragment(f) -> 6
    [] OTHER -> 0

\* C14: on an instance on which combine was never invoked, order has as
\* many entries as arr, and the j-th rank is the rank of the kind of the
\* j-th fragment.
C14_RanksParallelToFragments ==
  \A i \in Instances :
    NoCombine(log[i]) =>
      /\ Len(heap[i].order) = Len(heap[i].arr)
      /\ \A j \in 1 .. Len(heap[i].order) :
           j <= Len(heap[i].arr)
             => heap[i].order[j] = FragmentRank(heap[i].arr[j])

\* ---- C15 --------------------------------------------------------------
\* C15: a facade function for a fragment kind never throws: it returns a new
\* instance with the one decorated fragment, the one rank, and the flag of
\* the kind set when the kind is a singleton kind (no other flag).
C15_FacadeCallSucceeds ==
  (op \in FacadeOps /\ op # "cssSelectorBuilder.combine")
    => /\ thrown = NoError
       /\ self = Len(heap) /\ returned = self
       /\ Len(log[self]) = 1
       /\ LET e == log[self][1]
          IN  /\ op = "cssSelectorBuilder." \o e.op
              /\ heap[self] =
                   [arr |-> <<Decorated(e.op, e.value)>>,
                    order |-> <<Rank(e.op)>>,
                    hasElement |-> (e.op = "element"),
                    hasId |-> (e.op = "id"),
                    hasPseudoElement |-> (e.op = "pseudoElement")]

\* cssSelectorBuilder.pseudoElement has just returned a second instance.
C15_Witness ==
  /\ op = "cssSelectorBuilder.pseudoElement"
  /\ thrown = NoError
  /\ Len(heap) = 2
  /\ heap[self].hasPseudoElement
  /\ heap[self].order = <<6>>

\* ---- C16 --------------------------------------------------------------
\* C16: element, id or pseudoElement called when the kind was already
\* appended and the last recorded rank is strictly greater than the rank of
\* the kind throws the duplicate error, not the out-of-order error.
C16_DuplicateBeforeOrder ==
  [][\A i \in Instances :
       (/\ MethodStep(i)
        /\ NewEntry(i).op \in SingletonOps
        /\ Seen(heap[i], NewEntry(i).op)
        /\ LastRankAbove(heap[i], Rank(NewEntry(i).op)))
       => thrown' = DuplicateMsg
    ]_vars

\* element, class, element: the second element call has just thrown the
\* duplicate error.
C16_Witness ==
  \E i \in Instances :
    /\ LastCallAppendOn(i)
    /\ OpsOf(log[i]) = <<"element", "class", "element">>
    /\ LastRankAbove(heap[i], 1)
    /\ thrown = DuplicateMsg

\* ---- C17 --------------------------------------------------------------
\* pseudoElement has returned on the instance with invocations l.
PseudoElementDone(l) ==
  \E j \in 1 .. Len(l) : l[j].op = "pseudoElement" /\ l[j].thrown = NoError

\* C17 as stated: once pseudoElement has returned on an instance, a later
\* element, id, class, attr or pseudoClass call throws the out-of-order
\* error and a later pseudoElement call the duplicate error.
C17_ClosedAsStated ==
  [][\A i \in Instances :
       (/\ MethodStep(i)
        /\ NewEntry(i).op \in AppendOps
        /\ PseudoElementDone(log[i]))
       => thrown' = IF NewEntry(i).op = "pseudoElement"
                    THEN DuplicateMsg ELSE OrderMsg
    ]_vars

\* C17 amended: once pseudoElement has returned on an instance, every later
\* append call throws: the duplicate error when it is pseudoElement, or
\* element or id already called on the instance, the out-of-order error
\* otherwise; whatever combine and stringify calls come in between.
C17_ClosedAfterPseudoElement ==
  [][\A i \in Instances :
       (/\ MethodStep(i)
        /\ NewEntry(i).op \in AppendOps
        /\ PseudoElementDone(log[i]))
       => /\ thrown' # NoError
          /\ thrown' =
               IF /\ NewEntry(i).op \in SingletonOps
                  /\ \E j \in 1 .. Len(log[i]) : log[i][j].op = NewEntry(i).op
               THEN DuplicateMsg ELSE OrderMsg
          /\ heap'[i].order = heap[i].order
    ]_vars

\* pseudoElement, combine, class on one instance: the class call has just
\* thrown the out-of-order error.
C17_Witness ==
  \E i \in Instances :
    /\ LastCallAppendOn(i)
    /\ OpsOf(log[i]) = <<"pseudoElement", "combine", "class">>
    /\ thrown = OrderMsg

\* ---- C18 --------------------------------------------------------------
\* The instance with invocations l was returned by cssSelectorBuilder.combine
\* and combine was not called on it again.
FromFacadeCombine(l) ==
  /\ l # <<>>
  /\ l[1].op = "combine"
  /\ NoCombine(Tail(l))

\* C18: the instance cssSelectorBuilder.combine returns has no recorded rank
\* and no flag set; the first append on it, of any kind, is accepted and its
\* decorated text comes directly after the text of selector2; every append
\* on it is checked against the appends made on this instance only.
C18_CombinedStartsFresh ==
  [][/\ (calls' = calls + 1 /\ op' = "cssSelectorBuilder.combine")
          => /\ thrown' = NoError
             /\ heap'[self'].order = <<>>
             /\ ~heap'[self'].hasElement
             /\ ~heap'[self'].hasId
             /\ ~heap'[self'].hasPseudoElement
     /\ \A i \in Instances :
          (/\ MethodStep(i)
           /\ NewEntry(i).op \in AppendOps
           /\ FromFacadeCombine(log[i]))
          => /\ thrown' = ChecksAfter(Tail(log[i]), NewEntry(i).op)
             /\ Len(log[i]) = 1
                  => /\ thrown' = NoError
                     /\ heap'[i].arr =
                          <<heap[i].arr[1], heap[i].arr[2], heap[i].arr[3],
                            Decorated(NewEntry(i).op, NewEntry(i).value)>>
                     /\ stringify(heap'[i]) =
                          stringify(heap[i])
                            \o Decorated(NewEntry(i).op, NewEntry(i).value)
    ]_vars

\* element and then id have been accepted on the instance returned by
\* cssSelectorBuilder.combine for two distinct selectors that both hold an
\* id: the second append was checked against the first one only.
C18_Witness ==
  \E i \in Instances :
    /\ LastCallAppendOn(i)
    /\ OpsOf(log[i]) = <<"combine", "element", "id">>
    /\ log[i][3].thrown = NoError
    /\ thrown = NoError
    /\ log[i][1].s1 # log[i][1].s2
    /\ heap[log[i][1].s1].hasId
    /\ heap[log[i][1].s2].hasId
    /\ Len(heap[i].arr) = 5

\* ---- C12 --------------------------------------------------------------
KeySet(object) == {object.own[j].key : j \in 1 .. Len(object.own)}

ValueAt(object, key) == object.own[IndexOfKey(object.own, key)].value

\* C12: fromJSON(p, getJSON(o)) does not throw; its own fields are exactly
\* the keys of o, with the values of o, and its prototype is p; getJSON of
\* it is the text getJSON(o).
C12_RoundTrip ==
  /\ stage # "threw"
  /\ stage \in {"decoded", "reencoded"}
       => /\ KeySet(created) = KeySet(obj)
          /\ Len(created.own) = Len(obj.own)
          /\ \A key \in KeySet(obj) \cap KeySet(created) :
                ValueAt(created, key) = ValueAt(obj, key)
          /\ created.proto = proto
  /\ stage = "reencoded" => json2 = json

=============================================================================
